---------------------------- MODULE Spec2Model ----------------------------
(***************************************************************************)
(* scrapy_sessions/objects.py: the per-session cookie jars (Sessions,      *)
(* DynamicJar) and the rotating profile pool (Profiles).                   *)
(*                                                                         *)
(* Python values are modelled as follows.                                  *)
(*   - a list is a sequence; list indices stay 0-based as in the code, so  *)
(*     profiles[i] of the code is profiles[i + 1] here;                    *)
(*   - a dict whose iteration order matters (the jar's _cookies) is a      *)
(*     sequence of <<key, value>> pairs in insertion order;                *)
(*   - a dict that is only probed by key (a profile, Profiles.ref,         *)
(*     request.meta, request.headers) is a function on its key set;        *)
(*   - a call's outcome is recorded in the history variable `call`:        *)
(*     what was called, with which arguments, and what it returned or      *)
(*     raised.                                                             *)
(***************************************************************************)
EXTENDS Integers, Sequences, FiniteSets, TLC

\* ------------------------------------------------------------------ bounds
\* Longest profile list a Profiles object is built from.
MaxProfiles == 2
\* Number of get_fresh() executions (direct or through new_session) explored.
MaxFresh == 5
\* Number of cookies the jars hold together.
MaxCookies == 2
\* Number of renewal requests handed to the engine.
MaxRenewals == 1
\* Number of sessions the middleware assigns a profile while the Sessions
\* object is in use.
MaxAssigned == 1

\* ------------------------------------------------------------- value sets
\* Session ids (the code's default session id is 0).
SessionIds == {0, 1}

\* Keys a profile may carry.
ProfileKeys == {"proxy", "user-agent"}

\* The i-th profile of a list, carrying the keys in `keys`: 'proxy' is the
\* pair (address, auth header), 'user-agent' a string.
Profile(i, keys) ==
    [k \in keys |-> IF k = "proxy" THEN << <<"addr", i>>, <<"auth", i>> >>
                                   ELSE <<"ua", i>>]

\* Profile lists of length 0..MaxProfiles, every combination of optional keys.
ProfileLists ==
    UNION { { [i \in 1..n |-> Profile(i - 1, sh[i])] :
                sh \in [1..n -> SUBSET ProfileKeys] } : n \in 0..MaxProfiles }

\* The profile list the Sessions system is started with.
SettingsProfiles ==
    << Profile(0, {"proxy"}), Profile(1, {"proxy", "user-agent"}) >>

\* A value that is not there (a missing dict key).
Absent == <<>>

\* Outgoing requests handed to add_profile: each of meta['proxy'],
\* headers['Proxy-Authorization'], headers['User-Agent'] is missing or holds a
\* value set by somebody else.
Requests ==
    { [meta    |-> [k \in {"proxy"} |-> mp],
       headers |-> [k \in {"Proxy-Authorization", "User-Agent"} |->
                        IF k = "User-Agent" THEN ua ELSE pa]] :
        mp \in {Absent, <<"addr", "old">>},
        pa \in {Absent, <<"auth", "old">>},
        ua \in {Absent, <<"ua", "old">>} }

\* Optional values: None is the empty sequence, a value x is <<x>>.
None == <<>>
Some(x) == <<x>>

\* Cookies the framework may store in a jar: domain, path and name are the
\* three keys of the jar's nested storage. The site sets two names on one
\* path, a cookie on a second path and one on a second domain; that one
\* comes without a value ('Set-Cookie: sid'), and the jar keeps it with
\* value None. The value and expires "None" stand for Python's None.
Cookie(d, p, n) ==
    [domain |-> d, path |-> p, name |-> n, value |-> "v", expires |-> "None"]
Cookies ==
    { Cookie("a.com", "/", "sid"), Cookie("a.com", "/", "tok"),
      Cookie("a.com", "/x", "sid"),
      [Cookie("b.com", "/", "sid") EXCEPT !.value = "None"] }

\* Renewal requests a caller hands to clear(): with or without a callback of
\* its own, dont_filter set or not.
RenewalRequests ==
    { [callback |-> cb, dont_filter |-> df] :
        cb \in {"None", "parse"}, df \in BOOLEAN }

\* The mode argument of get(): None (the default) or the type dict.
Modes == {"None", "dict"}

VARIABLES
    profiles,           \* Profiles.profiles
    available,          \* Profiles.available
    used,               \* Profiles.used
    ref,                \* Profiles.ref
    sessions_profiles,  \* Sessions.profiles: "None" or the "Profiles" object
    jars,               \* Sessions.jars: session id -> DynamicJar
    engine,             \* the engine: calls of _download so far, deferreds
                        \* of them that have not fired, calls of
                        \* slot.nextcall.schedule so far
    nfresh,             \* history: number of get_fresh() executions so far
    call                \* history: the last call and its outcome

pvars == <<profiles, available, used, ref>>
svars == <<sessions_profiles, jars, engine>>
vars == <<profiles, available, used, ref, sessions_profiles, jars, engine,
          nfresh, call>>

\* ---------------------------------------------------------------- Profiles

\* Profiles.__init__
ProfilesInit(ps) ==
    /\ profiles = ps
    /\ available = [i \in 1..Len(ps) |-> i - 1]
    /\ used = <<>>
    /\ ref = <<>>

\* list.pop(0) raising IndexError on an empty list
CanPop(l) == l # <<>>

\* Faulty variant of get_fresh: pop() takes the tail, not the head.
GetFreshLifo(av, us) ==
    IF CanPop(av)
    THEN [err |-> "None", out |-> av[Len(av)],
          available |-> SubSeq(av, 1, Len(av) - 1),
          used |-> Append(us, av[Len(av)])]
    ELSE IF CanPop(us)
         THEN [err |-> "None", out |-> us[Len(us)],
               available |-> SubSeq(us, 1, Len(us) - 1),
               used |-> <<us[Len(us)]>>]
         ELSE [err |-> "IndexError", out |-> -1,
               available |-> us, used |-> us]

\* Faulty variant of get_fresh: the reset leaves out `self.used = []`, so
\* available and used stay one list.
GetFreshKeepUsed(av, us) ==
    IF CanPop(av)
    THEN [err |-> "None", out |-> Head(av),
          available |-> Tail(av), used |-> Append(us, Head(av))]
    ELSE IF CanPop(us)
         THEN [err |-> "None", out |-> Head(us),
               available |-> Append(Tail(us), Head(us)),
               used |-> Append(Tail(us), Head(us))]
         ELSE [err |-> "IndexError", out |-> -1,
               available |-> us, used |-> us]

\* Faulty variant of get_fresh: used.insert(0, out) instead of append.
GetFreshPrepend(av, us) ==
    IF CanPop(av)
    THEN [err |-> "None", out |-> Head(av),
          available |-> Tail(av), used |-> <<Head(av)>> \o us]
    ELSE IF CanPop(us)
         THEN [err |-> "None", out |-> Head(us),
               available |-> Tail(us), used |-> <<Head(us)>>]
         ELSE [err |-> "IndexError", out |-> -1,
               available |-> us, used |-> us]

\* Profiles.get_fresh as a function of the two queues: the index returned
\* (or the exception raised) and the queues afterwards.
GetFresh(av, us) ==
    IF CanPop(av)
    THEN [err |-> "None", out |-> Head(av),
          available |-> Tail(av), used |-> Append(us, Head(av))]
    ELSE IF CanPop(us)
         \* reset: available is the old used list, used a new list
         THEN [err |-> "None", out |-> Head(us),
               available |-> Tail(us), used |-> <<Head(us)>>]
         \* the second pop raises too: available and used are one empty list
         ELSE [err |-> "IndexError", out |-> -1,
               available |-> us, used |-> us]

\* Profiles.ref[session_id] = profile
SetItem(d, k, v) ==
    [x \in (DOMAIN d) \cup {k} |-> IF x = k THEN v ELSE d[x]]

get_fresh ==
    /\ nfresh < MaxFresh
    /\ LET r == GetFresh(available, used) IN
        /\ available' = r.available
        /\ used' = r.used
        /\ nfresh' = nfresh + 1
        /\ call' = [op |-> "get_fresh", err |-> r.err, out |-> r.out]
    /\ UNCHANGED <<profiles, ref, svars>>

\* Faulty variant of new_session: the ledger is rebuilt with the one entry.
NewSessionOnly(ps, av, us, rf, session_id) ==
    LET r == GetFresh(av, us) IN
    [err |-> r.err, out |-> r.out,
     available |-> r.available, used |-> r.used,
     ref |-> IF r.err = "None" THEN SetItem(<<>>, session_id, ps[r.out + 1])
                               ELSE rf]

\* Faulty variant of new_session: the session id is entered in the ledger
\* before get_fresh() is called, and stays there when it raises.
NewSessionEager(ps, av, us, rf, session_id) ==
    LET r == GetFresh(av, us) IN
    [err |-> r.err, out |-> r.out,
     available |-> r.available, used |-> r.used,
     ref |-> IF r.err = "None" THEN SetItem(rf, session_id, ps[r.out + 1])
                               ELSE SetItem(rf, session_id, <<>>)]

\* Profiles.new_session as a function of the object: ledger and queues after.
NewSession(ps, av, us, rf, session_id) ==
    LET r == GetFresh(av, us) IN
    [err |-> r.err, out |-> r.out,
     available |-> r.available, used |-> r.used,
     ref |-> IF r.err = "None" THEN SetItem(rf, session_id, ps[r.out + 1])
                               ELSE rf]

new_session(session_id) ==
    /\ nfresh < MaxFresh
    /\ LET r == NewSession(profiles, available, used, ref, session_id) IN
        /\ available' = r.available
        /\ used' = r.used
        /\ ref' = r.ref
        /\ nfresh' = nfresh + 1
        /\ call' = [op |-> "new_session", err |-> r.err, out |-> r.out,
                    session_id |-> session_id]
    /\ UNCHANGED <<profiles, svars>>

\* Faulty variant of add_profile: the two halves of the proxy pair swapped.
AddProfileSwapped(rf, session_id, request) ==
    IF session_id \notin DOMAIN rf
    THEN [err |-> "KeyError", request |-> request]
    ELSE LET profile == rf[session_id]
             r1 == IF "proxy" \in DOMAIN profile
                   THEN [meta |-> [request.meta EXCEPT
                                     !["proxy"] = profile["proxy"][2]],
                         headers |-> [request.headers EXCEPT
                                     !["Proxy-Authorization"] =
                                         profile["proxy"][1]]]
                   ELSE request
             r2 == IF "user-agent" \in DOMAIN profile
                   THEN [r1 EXCEPT !.headers["User-Agent"] =
                                         profile["user-agent"]]
                   ELSE r1
         IN [err |-> "None", request |-> r2]

\* Faulty variant of add_profile: profile.get(key) instead of the presence
\* checks, so a field the profile lacks is overwritten with nothing.
AddProfileDefaults(rf, session_id, request) ==
    IF session_id \notin DOMAIN rf
    THEN [err |-> "KeyError", request |-> request]
    ELSE LET profile == rf[session_id]
             px == "proxy" \in DOMAIN profile
             ua == "user-agent" \in DOMAIN profile
         IN [err |-> "None",
             request |->
               [meta |-> [request.meta EXCEPT !["proxy"] =
                            IF px THEN profile["proxy"][1] ELSE Absent],
                headers |-> [request.headers EXCEPT
                    !["Proxy-Authorization"] =
                            IF px THEN profile["proxy"][2] ELSE Absent,
                    !["User-Agent"] =
                            IF ua THEN profile["user-agent"] ELSE Absent]]]

\* Faulty variant of add_profile: ref.get(session_id, {}) instead of
\* ref[session_id], so an unknown session raises nothing.
AddProfileLenient(rf, session_id, request) ==
    IF session_id \notin DOMAIN rf
    THEN [err |-> "None", request |-> request]
    ELSE LET profile == rf[session_id]
             r1 == IF "proxy" \in DOMAIN profile
                   THEN [meta |-> [request.meta EXCEPT
                                     !["proxy"] = profile["proxy"][1]],
                         headers |-> [request.headers EXCEPT
                                     !["Proxy-Authorization"] =
                                         profile["proxy"][2]]]
                   ELSE request
             r2 == IF "user-agent" \in DOMAIN profile
                   THEN [r1 EXCEPT !.headers["User-Agent"] =
                                         profile["user-agent"]]
                   ELSE r1
         IN [err |-> "None", request |-> r2]

\* Profiles.add_profile as a function of the ledger and the request: the
\* request afterwards, or the KeyError of ref[session_id].
AddProfile(rf, session_id, request) ==
    IF session_id \notin DOMAIN rf
    THEN [err |-> "KeyError", request |-> request]
    ELSE LET profile == rf[session_id]
             r1 == IF "proxy" \in DOMAIN profile
                   THEN [meta |-> [request.meta EXCEPT
                                     !["proxy"] = profile["proxy"][1]],
                         headers |-> [request.headers EXCEPT
                                     !["Proxy-Authorization"] =
                                         profile["proxy"][2]]]
                   ELSE request
             r2 == IF "user-agent" \in DOMAIN profile
                   THEN [r1 EXCEPT !.headers["User-Agent"] =
                                         profile["user-agent"]]
                   ELSE r1
         IN [err |-> "None", request |-> r2]

add_profile(session_id, request) ==
    /\ LET r == AddProfile(ref, session_id, request) IN
        call' = [op |-> "add_profile", err |-> r.err,
                 session_id |-> session_id,
                 before |-> request, request |-> r.request]
    /\ UNCHANGED <<pvars, svars, nfresh>>

\* ---------------------------------------------------------------- Sessions

\* An insertion-ordered dict as a sequence of <<key, value>> pairs.
DictHas(d, k) == \E i \in 1..Len(d) : d[i][1] = k
DictGet(d, k) == d[CHOOSE i \in 1..Len(d) : d[i][1] = k][2]
DictSet(d, k, v) ==
    IF DictHas(d, k)
    THEN [i \in 1..Len(d) |-> IF d[i][1] = k THEN <<k, v>> ELSE d[i]]
    ELSE Append(d, <<k, v>>)
DictValues(d) == [i \in 1..Len(d) |-> d[i][2]]

\* DynamicJar.__init__: an empty CookieJar, not flagged, never renewed.
DynamicJar == [cookies |-> <<>>, needs_renewal |-> FALSE, times_renewed |-> 0]

\* CookieJar.set_cookie, which DynamicJar inherits: _cookies[domain][path][name]
\* = cookie, creating the inner dicts on first use.
SetCookie(c, ck) ==
    LET c2 == IF DictHas(c, ck.domain) THEN DictGet(c, ck.domain) ELSE <<>>
        c3 == IF DictHas(c2, ck.path) THEN DictGet(c2, ck.path) ELSE <<>>
    IN DictSet(c, ck.domain, DictSet(c2, ck.path, DictSet(c3, ck.name, ck)))

\* itertools.chain.from_iterable over a sequence of sequences
RECURSIVE Chain(_)
Chain(ss) == IF ss = <<>> THEN <<>> ELSE Head(ss) \o Chain(Tail(ss))

\* Sessions._flatten_cookiejar: the per-path dicts of every domain, chained,
\* and of each the first value (next(iter(f_k.values()))).
FlattenCookiejar(c) ==
    LET full_cookies ==
            Chain([i \in 1..Len(c) |-> DictValues(DictValues(c)[i])])
    IN [i \in 1..Len(full_cookies) |-> Head(DictValues(full_cookies[i]))]

\* Faulty variant of _httpcookie_to_dict: {value: name}.
HttpcookieToDictSwapped(cookie) == [k \in {cookie.value} |-> cookie.name]

\* Sessions._httpcookie_to_dict: {name: value}
HttpcookieToDict(cookie) == [k \in {cookie.name} |-> cookie.value]

\* http.cookiejar.time2netscape(t): the timestamp t formatted, the current
\* time when t is None.
Time2Netscape(t) == IF t = "None" THEN <<"netscape", "now">> ELSE <<"netscape", t>>

\* Sessions._httpcookie_to_str: 'name=value; expires=...; path=...; domain=...',
\* kept as the sequence of the pieces that are concatenated.
HttpcookieToStr(cookie) ==
    << cookie.name, "=", cookie.value, "; ",
       "expires=", Time2Netscape(cookie.expires), "; ",
       "path=", cookie.path, "; ",
       "domain=", cookie.domain >>

\* name + '=' + value in _httpcookie_to_str: str + None raises TypeError.
StrConcatRaises(cookie) == cookie.value = "None"

\* Sessions.get as a function of the jar: {} for a jar without cookies, else
\* the list of the flattened cookies, each formatted by the mode; the
\* exception of a formatting passes through.
Get(jar, mode) ==
    IF jar.cookies = <<>>
    THEN [err |-> "None", type |-> "dict", items |-> <<>>]
    ELSE LET cookies == FlattenCookiejar(jar.cookies) IN
         IF mode # "dict" /\ \E i \in 1..Len(cookies) :
                                  StrConcatRaises(cookies[i])
         THEN [err |-> "TypeError", type |-> "NoneType", items |-> <<>>]
         ELSE [err |-> "None", type |-> "list",
               items |-> [i \in 1..Len(cookies) |->
                            IF mode = "dict" THEN HttpcookieToDict(cookies[i])
                                             ELSE HttpcookieToStr(cookies[i])]]

\* Names bound in the module's namespace: its imports and its classes.
ModuleNames ==
    {"itertools", "time2netscape", "CookieJar",
     "DynamicJar", "Sessions", "Profiles"}

\* Exception classes among Python's builtins.
BuiltinExceptions == {"IndexError", "KeyError", "NameError", "StopIteration"}

\* `raise name(...)`: the name is looked up when the statement runs; a name
\* bound neither in the module nor among the builtins raises NameError.
Raise(name) ==
    IF name \in ModuleNames \cup BuiltinExceptions THEN name ELSE "NameError"

\* Faulty variant of get_profile: ref[session_id] instead of
\* ref.get(session_id, None), so a missing session id raises KeyError.
GetProfileIndexed(sp, rf, session_id) ==
    IF sp # "None"
    THEN IF session_id \in DOMAIN rf
         THEN [err |-> "None", ret |-> Some(rf[session_id])]
         ELSE [err |-> "KeyError", ret |-> None]
    ELSE [err |-> Raise("UsageError"), ret |-> None]

\* Sessions.get_profile as a function of the object.
GetProfile(sp, rf, session_id) ==
    IF sp # "None"
    THEN [err |-> "None",
          ret |-> IF session_id \in DOMAIN rf THEN Some(rf[session_id])
                                              ELSE None]
    ELSE [err |-> Raise("UsageError"), ret |-> None]

\* Faulty variant: the callback is set to Sessions._renew unconditionally.
RenewalHandedAlwaysRenew(renewal_request) ==
    [callback |-> "_renew", dont_filter |-> TRUE]

\* The request clear() hands to engine._download: the callback defaults to
\* Sessions._renew, dont_filter is forced.
RenewalHanded(renewal_request) ==
    [callback |-> IF renewal_request.callback = "None" THEN "_renew"
                  ELSE renewal_request.callback,
     dont_filter |-> TRUE]

\* Faulty variant of clear: the flag is set but jar.clear() is left out.
ClearedKeepCookies(jar) == [jar EXCEPT !.needs_renewal = TRUE]

\* Faulty variant of clear: the flag is flipped instead of set.
ClearedToggle(jar) ==
    [jar EXCEPT !.needs_renewal = ~@, !.cookies = <<>>]

\* The jar after the first three lines of Sessions.clear.
Cleared(jar) == [jar EXCEPT !.needs_renewal = TRUE, !.cookies = <<>>]

\* Faulty variant: every session shares one jar object, so clearing one
\* clears all.
ClearJarsShared(js, session_id) == [s \in DOMAIN js |-> Cleared(js[s])]

\* Sessions.jars after clear(session_id, ...): jar = self._get(session_id) is
\* the one jar that is flagged and emptied.
ClearJars(js, session_id) == [js EXCEPT ![session_id] = Cleared(@)]

\* engine._download(request, spider): one more download, its deferred pending.
EngineDownload(e) ==
    [e EXCEPT !.downloads = @ + 1, !.pending = @ + 1]

\* Faulty variant: the callback chained with addCallback, which a failure
\* skips.
FireCallbackOnly(e, outcome) ==
    IF outcome = "failure" THEN [e EXCEPT !.pending = @ - 1]
    ELSE [e EXCEPT !.pending = @ - 1, !.scheduled = @ + 1]

\* A pending deferred fires with `outcome`; the callback clear() chained with
\* addBoth runs on a response and on a failure alike and calls
\* engine.slot.nextcall.schedule().
Fire(e, outcome) ==
    [e EXCEPT !.pending = @ - 1, !.scheduled = @ + 1]

\* All cookies of a jar's nested storage, in storage order.
AllCookies(c) ==
    Chain([i \in 1..Len(c) |->
             Chain([j \in 1..Len(c[i][2]) |-> DictValues(c[i][2][j][2])])])

\* The framework stores a cookie of a response in the session's jar.
set_cookie(session_id, ck) ==
    /\ Len(Chain([s \in 1..Cardinality(SessionIds) |->
                    AllCookies(jars[s - 1].cookies)])) < MaxCookies
    /\ jars' = [jars EXCEPT ![session_id].cookies = SetCookie(@, ck)]
    /\ call' = [op |-> "set_cookie", err |-> "None"]
    /\ UNCHANGED <<pvars, sessions_profiles, engine, nfresh>>

\* Faulty variant of get: the flattening consumes the jar's storage.
get_popping(session_id, mode) ==
    /\ LET r == Get(jars[session_id], mode) IN
        call' = [op |-> "get", err |-> r.err, session_id |-> session_id,
                 mode |-> mode, ret |-> r]
    /\ jars' = [jars EXCEPT ![session_id].cookies = <<>>]
    /\ UNCHANGED <<pvars, sessions_profiles, engine, nfresh>>

\* Sessions.get: nothing is assigned, the result is built from new objects.
get(session_id, mode) ==
    /\ LET r == Get(jars[session_id], mode) IN
        call' = [op |-> "get", err |-> r.err, session_id |-> session_id,
                 mode |-> mode, ret |-> r]
    /\ UNCHANGED <<pvars, svars, nfresh>>

get_profile(session_id) ==
    /\ LET r == GetProfile(sessions_profiles, ref, session_id) IN
        call' = [op |-> "get_profile", err |-> r.err,
                 session_id |-> session_id, ret |-> r.ret]
    /\ UNCHANGED <<pvars, svars, nfresh>>

\* Sessions.clear; renewal_request is None or Some(request). The call record
\* keeps what the jar was before, and the request and the jar as they are when
\* engine._download is called.
clear(session_id, renewal_request) ==
    /\ renewal_request # None => engine.downloads < MaxRenewals
    /\ jars' = ClearJars(jars, session_id)
    /\ engine' = IF renewal_request # None THEN EngineDownload(engine)
                                           ELSE engine
    /\ call' = [op |-> "clear", err |-> "None", session_id |-> session_id,
                renewal_request |-> renewal_request,
                before |-> [ncookies |->
                                Len(AllCookies(jars[session_id].cookies)),
                            needs_renewal |-> jars[session_id].needs_renewal],
                handed |-> IF renewal_request # None
                           THEN Some([request |->
                                          RenewalHanded(renewal_request[1]),
                                      jar |-> Cleared(jars[session_id])])
                           ELSE None]
    /\ UNCHANGED <<pvars, sessions_profiles, nfresh>>

\* The deferred of a renewal download fires, with a response or a failure.
download_done(outcome) ==
    /\ engine.pending > 0
    /\ engine' = Fire(engine, outcome)
    /\ call' = [op |-> "download_done", err |-> "None", outcome |-> outcome]
    /\ UNCHANGED <<pvars, sessions_profiles, jars, nfresh>>

\* -------------------------------------------------------- specifications

NoCall == [op |-> "init", err |-> "None"]

\* Sessions.__init__ with jars that create a DynamicJar on first access, no
\* renewal under way.
SessionsInit(sp) ==
    /\ sessions_profiles = sp
    /\ jars = [s \in SessionIds |-> DynamicJar]
    /\ engine = [downloads |-> 0, pending |-> 0, scheduled |-> 0]

\* A Profiles object on its own, built from any profile list.
InitProfiles ==
    /\ \E ps \in ProfileLists : ProfilesInit(ps)
    /\ SessionsInit("Profiles")
    /\ nfresh = 0
    /\ call = NoCall

NextProfiles ==
    \/ get_fresh
    \/ \E s \in SessionIds : new_session(s)
    \/ \E s \in SessionIds, rq \in Requests : add_profile(s, rq)

SpecProfiles == InitProfiles /\ [][NextProfiles]_vars

\* The Sessions object of a crawl: built without profiles, or with the
\* Profiles object of the configured profile list, whose ledger the
\* middleware fills by new_session.
Init ==
    /\ \E sp \in {"None", "Profiles"} :
          /\ SessionsInit(sp)
          /\ ProfilesInit(IF sp = "None" THEN <<>> ELSE SettingsProfiles)
    /\ nfresh = 0
    /\ call = NoCall

Next ==
    \/ \E s \in SessionIds, ck \in Cookies : set_cookie(s, ck)
    \/ \E s \in SessionIds, m \in Modes : get(s, m)
    \/ \E s \in SessionIds : get_profile(s)
    \/ \E s \in SessionIds, rr \in {None} \cup {Some(r) : r \in RenewalRequests} :
          clear(s, rr)
    \/ \E o \in {"response", "failure"} : download_done(o)
    \/ \E s \in SessionIds : /\ sessions_profiles = "Profiles"
                             /\ nfresh < MaxAssigned
                             /\ new_session(s)

Spec == Init /\ [][Next]_vars

\* ------------------------------------------------------------ properties

\* Python's LookupError: the base class of IndexError and KeyError.
LookupErrors == {"IndexError", "KeyError"}

\* How often the index i occurs in the queue q.
Occurrences(q, i) == Cardinality({k \in 1..Len(q) : q[k] = i})

\* C1: for N >= 1 profiles the k-th execution of get_fresh() (called directly
\* or by new_session) returns the index (k - 1) mod N: the first N calls
\* return 0..N-1 in order and the (N+1)th call starts over.
C1_Rotation ==
    (call.op \in {"get_fresh", "new_session"} /\ Len(profiles) >= 1) =>
        /\ call.err = "None"
        /\ call.out = (nfresh - 1) % Len(profiles)

\* C1 witness: with two profiles the third get_fresh() starts over at 0, and
\* the fifth call has been through two resets.
C1_Witness ==
    /\ call.op = "get_fresh"
    /\ Len(profiles) = 2
    /\ nfresh = 5
    /\ call.out = 0

\* C2: between calls every index 0..N-1 occurs exactly once in available and
\* used taken together: in one of the two queues, never in both, never twice.
C2_Partition ==
    \A i \in 0..(Len(profiles) - 1) :
        Occurrences(available, i) + Occurrences(used, i) = 1

\* C2 witness: two profiles right after the reset: 0 is used again, 1 is
\* available again.
C2_Witness ==
    /\ Len(profiles) = 2
    /\ nfresh = 3
    /\ used = <<0>>
    /\ available = <<1>>

\* C6: new_session(session_id) on N >= 1 profiles succeeds and sets the ledger
\* entry of session_id to the profile at the index the next get_fresh()
\* returns (the (nfresh+1)-th, so nfresh mod N), replaces an earlier entry,
\* and leaves every other entry as it was; no step of any operation removes
\* a session id from the ledger.
C6_Ledger ==
    [][ /\ DOMAIN ref \subseteq DOMAIN ref'
        /\ (call'.op = "new_session" /\ Len(profiles) >= 1) =>
             /\ call'.err = "None"
             /\ DOMAIN ref' = DOMAIN ref \cup {call'.session_id}
             /\ ref'[call'.session_id] =
                    profiles[(nfresh % Len(profiles)) + 1]
             /\ \A s \in DOMAIN ref \ {call'.session_id} : ref'[s] = ref[s]
      ]_vars

\* C6 witness: session 0 holds the second profile of two while session 1
\* keeps the first, which the rotation handed out before.
C6_Witness ==
    /\ call.op = "new_session"
    /\ call.session_id = 0
    /\ Len(profiles) = 2
    /\ nfresh = 4
    /\ DOMAIN ref = {0, 1}
    /\ ref[0] = profiles[2]
    /\ ref[1] = profiles[1]

\* C7: add_profile for a session the ledger holds a profile for raises
\* nothing; a profile with a proxy puts the proxy address in meta['proxy'] and
\* the auth header in headers['Proxy-Authorization']; a profile with a
\* user-agent puts it in headers['User-Agent']; the values are those of the
\* ledger's profile for that session.
C7_AddProfile ==
    (call.op = "add_profile" /\ call.session_id \in DOMAIN ref) =>
        LET profile == ref[call.session_id] IN
        /\ call.err = "None"
        /\ "proxy" \in DOMAIN profile =>
             /\ call.request.meta["proxy"] = profile["proxy"][1]
             /\ call.request.headers["Proxy-Authorization"] =
                    profile["proxy"][2]
        /\ "user-agent" \in DOMAIN profile =>
             call.request.headers["User-Agent"] = profile["user-agent"]

\* C7 witness: the second profile, with both fields, overwrites three values
\* the request already carried.
C7_Witness ==
    /\ call.op = "add_profile"
    /\ call.session_id \in DOMAIN ref
    /\ ref[call.session_id] = Profile(1, ProfileKeys)
    /\ call.before.meta["proxy"] = <<"addr", "old">>
    /\ call.before.headers["Proxy-Authorization"] = <<"auth", "old">>
    /\ call.before.headers["User-Agent"] = <<"ua", "old">>
    /\ call.request.meta["proxy"] = <<"addr", 1>>
    /\ call.request.headers["Proxy-Authorization"] = <<"auth", 1>>
    /\ call.request.headers["User-Agent"] = <<"ua", 1>>

\* C8: add_profile keeps what the profile has no field for: without a proxy
\* meta['proxy'] and headers['Proxy-Authorization'] stay as they were, without
\* a user-agent headers['User-Agent'] stays, with neither the request is
\* unchanged; and every add_profile call leaves ledger and queues unchanged.
C8_NoOp ==
    [][ call'.op = "add_profile" =>
          /\ UNCHANGED <<ref, available, used>>
          /\ call'.err = "None" =>
               LET profile == ref[call'.session_id] IN
               /\ "proxy" \notin DOMAIN profile =>
                    /\ call'.request.meta = call'.before.meta
                    /\ call'.request.headers["Proxy-Authorization"] =
                           call'.before.headers["Proxy-Authorization"]
               /\ "user-agent" \notin DOMAIN profile =>
                    call'.request.headers["User-Agent"] =
                        call'.before.headers["User-Agent"]
               /\ DOMAIN profile = {} => call'.request = call'.before
      ]_vars

\* C8 witness: a profile with a proxy only; the request's own User-Agent is
\* kept while the proxy fields are written.
C8_Witness ==
    /\ call.op = "add_profile"
    /\ call.err = "None"
    /\ DOMAIN ref[call.session_id] = {"proxy"}
    /\ call.before.headers["User-Agent"] = <<"ua", "old">>
    /\ call.request.headers["User-Agent"] = <<"ua", "old">>
    /\ call.request.meta["proxy"] # call.before.meta["proxy"]

\* C10: add_profile for a session id the ledger has no entry for (never
\* passed to new_session) raises a lookup error and leaves the request, the
\* ledger and both queues unchanged.
C10_UnknownSession ==
    [][ (call'.op = "add_profile" /\ call'.session_id \notin DOMAIN ref) =>
          /\ call'.err \in LookupErrors
          /\ call'.request = call'.before
          /\ UNCHANGED <<ref, available, used>>
      ]_vars

\* C10 witness: session 1 was never assigned a profile while session 0 was;
\* add_profile(1, request) raised KeyError.
C10_Witness ==
    /\ call.op = "add_profile"
    /\ call.session_id = 1
    /\ DOMAIN ref = {0}
    /\ call.err = "KeyError"
    /\ call.before.meta["proxy"] = <<"addr", "old">>
    /\ call.request = call.before
\* The cookies a jar's storage holds, each under its own
\* (domain, path, name) key.
StoredCookies(c) ==
    { ck \in Cookies :
        /\ DictHas(c, ck.domain)
        /\ DictHas(DictGet(c, ck.domain), ck.path)
        /\ DictHas(DictGet(DictGet(c, ck.domain), ck.path), ck.name) }

\* A cookie in the shape the mode asks for.
Formatted(ck, mode) ==
    IF mode = "dict" THEN HttpcookieToDict(ck) ELSE HttpcookieToStr(ck)

\* C3: get(session_id, mode) returns a flat sequence with exactly one entry
\* for every cookie the session's jar stores: as many entries as cookies, and
\* each (domain, path, name) cookie among them, also when cookies of
\* different names share a domain and a path.
C3_OneEntryPerCookie ==
    (call.op = "get" /\ call.err = "None") =>
        LET stored == StoredCookies(jars[call.session_id].cookies) IN
        /\ Len(call.ret.items) = Cardinality(stored)
        /\ \A ck \in stored :
             \E i \in 1..Len(call.ret.items) :
                call.ret.items[i] = Formatted(ck, call.mode)

\* C4: when clear(session_id, renewal_request) has returned, the session's jar
\* holds no cookie and is flagged needs_renewal, with or without a renewal
\* request, whatever the jar held and however it was flagged before.
C4_Cleared ==
    call.op = "clear" =>
        /\ jars[call.session_id].cookies = <<>>
        /\ jars[call.session_id].needs_renewal = TRUE

\* C4 witness: clear() without a renewal request on a jar that held two
\* cookies and was not flagged.
C4_Witness ==
    /\ call.op = "clear"
    /\ call.renewal_request = None
    /\ call.before.ncookies = 2
    /\ call.before.needs_renewal = FALSE
    /\ jars[call.session_id].cookies = <<>>
    /\ jars[call.session_id].needs_renewal = TRUE

\* C5: clear() with a renewal request calls the engine's download once for
\* that request and schedules nothing itself; when that download's deferred
\* fires, with a response or with a failure, the engine's next call is
\* scheduled once and the deferred is spent; clear() without a renewal request
\* downloads nothing and schedules nothing.
C5_Renewal ==
    [][ /\ call'.op = "clear" =>
             IF call'.renewal_request # None
             THEN /\ engine'.downloads = engine.downloads + 1
                  /\ engine'.pending = engine.pending + 1
                  /\ engine'.scheduled = engine.scheduled
                  /\ call'.handed # None
             ELSE /\ engine' = engine
                  /\ call'.handed = None
        /\ call'.op = "download_done" =>
             /\ engine'.scheduled = engine.scheduled + 1
             /\ engine'.pending = engine.pending - 1
             /\ engine'.downloads = engine.downloads
        /\ engine'.downloads = engine'.pending + engine'.scheduled
      ]_vars

\* C5 witness: a renewal download failed and the engine's next call has been
\* scheduled for it.
C5_Witness ==
    /\ call.op = "download_done"
    /\ call.outcome = "failure"
    /\ engine.downloads = 1
    /\ engine.pending = 0
    /\ engine.scheduled = 1

\* C9: get_profile(session_id) on a Sessions object built without profiles
\* raises a usage error.
C9_UsageError ==
    (call.op = "get_profile" /\ sessions_profiles = "None") =>
        call.err = "UsageError"
\* C11 as stated: with profile sync enabled, get_profile(session_id) for a
\* session id missing from the ledger raises a lookup error.
C11_LookupError ==
    (/\ call.op = "get_profile"
     /\ sessions_profiles = "Profiles"
     /\ call.session_id \notin DOMAIN ref) =>
        call.err \in LookupErrors

\* C11 amended: with profile sync enabled, get_profile(session_id) for a
\* session id missing from the ledger raises nothing and returns None; for a
\* session id in the ledger it returns that session's profile.
C11_ReturnsNone ==
    (call.op = "get_profile" /\ sessions_profiles = "Profiles") =>
        /\ call.err = "None"
        /\ call.ret = IF call.session_id \in DOMAIN ref
                      THEN Some(ref[call.session_id]) ELSE None

\* C11 witness: session 0 has a profile, session 1 has none, and
\* get_profile(1) returned None.
C11_Witness ==
    /\ call.op = "get_profile"
    /\ sessions_profiles = "Profiles"
    /\ DOMAIN ref = {0}
    /\ call.session_id = 1
    /\ call.err = "None"
    /\ call.ret = None

\* The two results of get() on one jar say the same in two shapes: the same
\* container, as many entries, and at every position the dict entry's one
\* key and its value are the name and the value the string entry starts
\* with, around '='.
SameInformation(d, t) ==
    /\ d.err = "None"
    /\ t.err = "None"
    /\ d.type = t.type
    /\ Len(d.items) = Len(t.items)
    /\ \A i \in 1..Len(d.items) :
         /\ DOMAIN d.items[i] = {t.items[i][1]}
         /\ t.items[i][2] = "="
         /\ d.items[i][t.items[i][1]] = t.items[i][3]

\* C12: for every jar content, get(session_id, mode=dict) and get(session_id)
\* return results of the same length in the same cookie order, entry i of the
\* one holding the name and value that start entry i of the other; for a jar
\* without cookies both return the same empty result.
C12_ModesAgree ==
    \A s \in SessionIds :
        LET d == Get(jars[s], "dict")
            t == Get(jars[s], "None")
        IN /\ SameInformation(d, t)
           /\ jars[s].cookies = <<>> => (d = t /\ Len(d.items) = 0)
           /\ (call.op = "get" /\ call.session_id = s) =>
                call.ret = IF call.mode = "dict" THEN d ELSE t

\* C12 witness: get(0, dict) returned two entries of different names, 'tok'
\* stored before 'sid'.
C12_Witness ==
    /\ call.op = "get"
    /\ call.mode = "dict"
    /\ Len(call.ret.items) = 2
    /\ DOMAIN call.ret.items[1] = {"tok"}
    /\ DOMAIN call.ret.items[2] = {"sid"}
\* C13: get() is read-only: a get call in either mode leaves every jar (its
\* cookies, needs_renewal, times_renewed), the ledger and both queues as they
\* were.
C13_ReadOnly ==
    [][ call'.op = "get" =>
          UNCHANGED <<jars, ref, available, used, profiles>> ]_vars

\* C13 witness: get(0, dict) returned two entries from a flagged jar while the
\* ledger holds a profile.
C13_Witness ==
    /\ call.op = "get"
    /\ call.session_id = 0
    /\ call.mode = "dict"
    /\ call.err = "None"
    /\ Len(call.ret.items) = 2
    /\ jars[0].needs_renewal = TRUE
    /\ Len(AllCookies(jars[0].cookies)) = 2
    /\ DOMAIN ref # {}

\* C14: clear(a, ...) changes the jar of session a only: for every other
\* session the cookies, needs_renewal and times_renewed are after the call
\* what they were before it.
C14_Independent ==
    [][ call'.op = "clear" =>
          \A b \in SessionIds \ {call'.session_id} : jars'[b] = jars[b] ]_vars

\* C14 witness: session 0, which held a cookie, was cleared; session 1 still
\* holds its cookie and is not flagged.
C14_Witness ==
    /\ call.op = "clear"
    /\ call.session_id = 0
    /\ call.before.ncookies = 1
    /\ jars[0].cookies = <<>>
    /\ Len(AllCookies(jars[1].cookies)) = 1
    /\ jars[1].needs_renewal = FALSE

\* C15: when clear() with a renewal request calls engine._download, the jar
\* is empty and flagged needs_renewal already; the request handed over has
\* dont_filter True, and its callback is the caller's when the caller gave
\* one and Sessions._renew only when the request had none.
C15_Handover ==
    (call.op = "clear" /\ call.renewal_request # None) =>
        /\ call.handed # None
        /\ call.handed[1].jar.cookies = <<>>
        /\ call.handed[1].jar.needs_renewal = TRUE
        /\ call.handed[1].request.dont_filter = TRUE
        /\ call.handed[1].request.callback =
              IF call.renewal_request[1].callback = "None" THEN "_renew"
              ELSE call.renewal_request[1].callback

\* C15 witness: a request with its own callback and dont_filter False, for a
\* jar that held two cookies and was not flagged.
C15_Witness ==
    /\ call.op = "clear"
    /\ call.renewal_request = Some([callback |-> "parse", dont_filter |-> FALSE])
    /\ call.before.ncookies = 2
    /\ call.before.needs_renewal = FALSE
    /\ call.handed = Some([request |-> [callback |-> "parse",
                                        dont_filter |-> TRUE],
                           jar |-> [cookies |-> <<>>, needs_renewal |-> TRUE,
                                    times_renewed |-> 0]])

\* C16: for N >= 1 profiles, between calls used followed by available is the
\* original sequence 0..N-1, so used holds in hand-out order the indices
\* handed out since the last reset; after the first get_fresh() used is never
\* empty.
C16_UsedThenAvailable ==
    Len(profiles) >= 1 =>
        /\ used \o available = [i \in 1..Len(profiles) |-> i - 1]
        /\ nfresh >= 1 => used # <<>>

\* C16 witness: two profiles, second lap: both indices handed out again,
\* available empty.
C16_Witness ==
    /\ Len(profiles) = 2
    /\ nfresh = 4
    /\ used = <<0, 1>>
    /\ available = <<>>

\* C17: for a Profiles object built from an empty list every get_fresh() and
\* every new_session() raises a lookup error, no session id enters the
\* ledger, and ledger and queues stay empty.
C17_EmptyList ==
    Len(profiles) = 0 =>
        /\ ref = <<>>
        /\ available = <<>>
        /\ used = <<>>
        /\ call.op \in {"get_fresh", "new_session"} =>
              call.err \in LookupErrors

\* C17 witness: the third failing call on an empty list, a new_session.
C17_Witness ==
    /\ Len(profiles) = 0
    /\ nfresh = 3
    /\ call.op = "new_session"
    /\ call.err = "IndexError"
    /\ ref = <<>>

\* C18: no step of these operations takes needs_renewal of a jar from true
\* back to false, so a cleared session stays flagged through every later get,
\* get_profile and clear; and times_renewed of every jar is 0 before and
\* after every step.
C18_FlagMonotone ==
    [][ \A s \in SessionIds :
          /\ jars[s].needs_renewal => jars'[s].needs_renewal
          /\ jars[s].times_renewed = 0
          /\ jars'[s].times_renewed = 0 ]_vars

\* C18 witness: session 0 was cleared, got a cookie again, was cleared a
\* second time and is still flagged at a later get_profile.
C18_Witness ==
    /\ call.op = "get_profile"
    /\ jars[0].needs_renewal = TRUE
    /\ jars[0].times_renewed = 0
    /\ jars[0].cookies # <<>>
    /\ engine.downloads = 1

=============================================================================
